---- MODULE Spec2Model ----
(***************************************************************************)
(* Model of browser_auth.py: the BrowserAuthenticator class (session file  *)
(* codec, cookie projection onto the requests session, the authentication  *)
(* probe) and the orchestrator main().                                     *)
(*                                                                         *)
(* Python values are modelled as follows.  A dict is a function whose      *)
(* DOMAIN is the set of its keys.  None is the record None below, which    *)
(* shares no key with any dict of the program.  A string that the code     *)
(* searches in (the response body) is a sequence of one-character strings. *)
(***************************************************************************)
EXTENDS Integers, Sequences, FiniteSets, TLC

VARIABLES
    pc,            \* position in main() (or in a unit harness)
    cookies_file,  \* content of the file self.cookies_file on disk
    session_data,  \* main()'s local session_data
    jar,           \* self.session.cookies
    headers,       \* self.session.headers
    driver,        \* self.driver: "none" or "open"
    get_result,    \* what the network answered to the last probe GET
    response,      \* value returned by the last test_authenticated_access
    printed,       \* message printed by the last test_authenticated_access
    saved,         \* value returned by the last save_session_data
    loaded,        \* value returned by the last load_session_data
    configured,    \* outcome of the last configure_requests_session
    calls,         \* number of calls of each collaborator-facing method
    elapsed        \* manual_login: time.time() - start_time, in seconds

vars == <<pc, cookies_file, session_data, jar, headers, driver, get_result,
          response, printed, saved, loaded, configured, calls, elapsed>>

----------------------------------------------------------------------------
(* Bounds of the model *)

\* longest cookie list of a snapshot in the codec and projector harnesses
MaxCookies == 2
\* longest cookie list of a snapshot in a run of main()
MaxRunCookies == 1
\* number of text fragments a response body is concatenated from
MaxFrags == 2
\* number of save/load round trips in the codec harness
MaxRounds == 2
\* number of projections of one snapshot in the projector harness
MaxProjections == 2

----------------------------------------------------------------------------
(* Python values *)

None == [py_none |-> TRUE]

EmptyDict == [k \in {} |-> ""]

\* bool(x) for the values main() tests: None and {} are falsy, a non-empty
\* dict is truthy, a requests.Response is truthy iff its status is below 400
\* (Response.__bool__ returns Response.ok).
Truthy(x) ==
    IF x = None THEN FALSE
    ELSE IF "status" \in DOMAIN x THEN x.status < 400
    ELSE DOMAIN x # {}

----------------------------------------------------------------------------
(* Strings of the probe: response bodies and the failure phrases *)

UpperToLower ==
    [A |-> "a", B |-> "b", C |-> "c", D |-> "d", E |-> "e", F |-> "f",
     G |-> "g", H |-> "h", I |-> "i", J |-> "j", K |-> "k", L |-> "l",
     M |-> "m", N |-> "n", O |-> "o", P |-> "p", Q |-> "q", R |-> "r",
     S |-> "s", T |-> "t", U |-> "u", V |-> "v", W |-> "w", X |-> "x",
     Y |-> "y", Z |-> "z"]

\* str.lower()
Lower(s) ==
    [i \in 1..Len(s) |->
        IF s[i] \in DOMAIN UpperToLower THEN UpperToLower[s[i]] ELSE s[i]]

\* needle in hay (substring test)
Contains(hay, needle) ==
    \E i \in 1..(Len(hay) - Len(needle) + 1) :
        SubSeq(hay, i, i + Len(needle) - 1) = needle

auth_fail_indicators ==
    << <<"l","o","g","i","n">>,
       <<"s","i","g","n"," ","i","n">>,
       <<"u","n","a","u","t","h","o","r","i","z","e","d">>,
       <<"a","c","c","e","s","s"," ","d","e","n","i","e","d">>,
       <<"p","l","e","a","s","e"," ","l","o","g"," ","i","n">>,
       <<"a","u","t","h","e","n","t","i","c","a","t","i","o","n"," ",
         "r","e","q","u","i","r","e","d">>,
       <<"s","e","s","s","i","o","n"," ","e","x","p","i","r","e","d">> >>

\* self.session.get raised (connection error, timeout, ...)
TransportError == [transport_error |-> TRUE]

\* no GET has been issued yet
NoRequest == [no_request |-> TRUE]

\* Variants of test_authenticated_access and of its phrase test, each with
\* one plausible slip; the claims below must tell them from the code.

\* the phrase test without .lower()
AuthFailed_CaseSensitive(body) ==
    \E n \in 1..Len(auth_fail_indicators) :
        Contains(body, auth_fail_indicators[n])

\* the content check placed before the 401/403 check
TestAuthenticatedAccess_ContentFirst(get) ==
    IF get = TransportError
    THEN [ret |-> None, printed |-> "error testing", raised |-> FALSE]
    ELSE LET auth_failed == AuthFailed_CaseSensitive(Lower(get.body)) IN
         IF get.status = 200 /\ ~auth_failed
         THEN [ret |-> get, printed |-> "appears successful", raised |-> FALSE]
         ELSE IF auth_failed
         THEN [ret |-> get, printed |-> "login-related content", raised |-> FALSE]
         ELSE IF get.status \in {401, 403}
         THEN [ret |-> None, printed |-> "failed 401/403", raised |-> FALSE]
         ELSE [ret |-> get, printed |-> "unexpected response", raised |-> FALSE]

\* the login-related branch returning None instead of the response
TestAuthenticatedAccess_DropResponse(get) ==
    IF get = TransportError
    THEN [ret |-> None, printed |-> "error testing", raised |-> FALSE]
    ELSE LET auth_failed == AuthFailed_CaseSensitive(Lower(get.body)) IN
         IF get.status = 200 /\ ~auth_failed
         THEN [ret |-> get, printed |-> "appears successful", raised |-> FALSE]
         ELSE IF get.status \in {401, 403}
         THEN [ret |-> None, printed |-> "failed 401/403", raised |-> FALSE]
         ELSE IF auth_failed
         THEN [ret |-> None, printed |-> "login-related content", raised |-> FALSE]
         ELSE [ret |-> get, printed |-> "unexpected response", raised |-> FALSE]

\* the GET outside the try block: a transport failure leaves the method
TestAuthenticatedAccess_NoExcept(get) ==
    IF get = TransportError
    THEN [ret |-> None, printed |-> "", raised |-> TRUE]
    ELSE LET auth_failed == AuthFailed_CaseSensitive(Lower(get.body)) IN
         IF get.status = 200 /\ ~auth_failed
         THEN [ret |-> get, printed |-> "appears successful", raised |-> FALSE]
         ELSE IF get.status \in {401, 403}
         THEN [ret |-> None, printed |-> "failed 401/403", raised |-> FALSE]
         ELSE IF auth_failed
         THEN [ret |-> get, printed |-> "login-related content", raised |-> FALSE]
         ELSE [ret |-> get, printed |-> "unexpected response", raised |-> FALSE]

\* any(indicator in content_lower for indicator in auth_fail_indicators)
AuthFailed(body) ==
    \E n \in 1..Len(auth_fail_indicators) :
        Contains(Lower(body), auth_fail_indicators[n])

\* Text fragments response bodies are built from: "Welcome back", "ok",
\* "Log", "In", " in", "Please log", "SIGN", "Unauthorized", "Access Denied",
\* "Authentication Required", "Session", " Expired".
Fragments ==
    { <<"W","e","l","c","o","m","e"," ","b","a","c","k">>,
      <<"o","k">>,
      <<"L","o","g">>,
      <<"I","n">>,
      <<" ","i","n">>,
      <<"P","l","e","a","s","e"," ","l","o","g">>,
      <<"S","I","G","N">>,
      <<"U","n","a","u","t","h","o","r","i","z","e","d">>,
      <<"A","c","c","e","s","s"," ","D","e","n","i","e","d">>,
      <<"A","u","t","h","e","n","t","i","c","a","t","i","o","n"," ",
        "R","e","q","u","i","r","e","d">>,
      <<"S","e","s","s","i","o","n">>,
      <<" ","E","x","p","i","r","e","d">> }

RECURSIVE Concat(_)
Concat(fs) == IF fs = <<>> THEN <<>> ELSE Head(fs) \o Concat(Tail(fs))

SeqsUpTo(S, n) == UNION { [1..k -> S] : k \in 0..n }

Bodies == { Concat(fs) : fs \in SeqsUpTo(Fragments, MaxFrags) }

Statuses == {200, 204, 401, 403, 404, 503}

GetResults ==
    {TransportError} \cup { [status |-> s, body |-> b] : s \in Statuses, b \in Bodies }

----------------------------------------------------------------------------
(* test_authenticated_access: the probe's classification of a GET result.  *)
(* ret is the returned value, printed the message of the branch taken,     *)
(* raised whether an exception leaves the method.                          *)

TestAuthenticatedAccess(get) ==
    IF get = TransportError
    THEN [ret |-> None, printed |-> "error testing", raised |-> FALSE]
    ELSE LET auth_failed == AuthFailed(get.body) IN
         IF get.status = 200 /\ ~auth_failed
         THEN [ret |-> get, printed |-> "appears successful", raised |-> FALSE]
         ELSE IF get.status \in {401, 403}
         THEN [ret |-> None, printed |-> "failed 401/403", raised |-> FALSE]
         ELSE IF auth_failed
         THEN [ret |-> get, printed |-> "login-related content", raised |-> FALSE]
         ELSE [ret |-> get, printed |-> "unexpected response", raised |-> FALSE]

\* The ReplayOutcome a probe result stands for: which branch returned.
Outcome(r) ==
    CASE r.printed = "appears successful" -> "Authenticated"
      [] r.printed = "failed 401/403" -> "Unauthenticated"
      [] OTHER -> "Indeterminate"

----------------------------------------------------------------------------
(* Session snapshots: the dict capture_session_data builds and the dicts a *)
(* session file may hold.                                                  *)

\* Cookies as driver.get_cookies() may report them.  Selenium always gives
\* name, value, domain, path and secure; the other keys are optional.
CookieSid ==
    [name |-> "sid", value |-> "abc123", domain |-> "example.com", path |-> "/",
     secure |-> TRUE, httpOnly |-> TRUE, sameSite |-> "Lax"]

\* same (name, domain, path) as CookieSid, another value
CookieSidOther ==
    [name |-> "sid", value |-> "zzz999", domain |-> "example.com", path |-> "/",
     secure |-> TRUE, httpOnly |-> TRUE, sameSite |-> "Lax"]

\* no httpOnly, no sameSite
CookieTok ==
    [name |-> "tok", value |-> "t1", domain |-> ".example.com", path |-> "/app",
     secure |-> FALSE]

\* an extra key (expiry), which the session file does not keep
CookieExpiry ==
    [name |-> "keep", value |-> "", domain |-> "example.com", path |-> "/",
     secure |-> FALSE, httpOnly |-> FALSE, sameSite |-> "None",
     expiry |-> 1800000000]

\* no path
CookieNoPath ==
    [name |-> "pref", value |-> "dark", domain |-> "example.com",
     secure |-> FALSE, httpOnly |-> FALSE, sameSite |-> "Strict"]

\* an empty domain
CookieNoDomain ==
    [name |-> "trk", value |-> "1", domain |-> "", path |-> "/",
     secure |-> FALSE, httpOnly |-> FALSE, sameSite |-> "None"]

Cookies ==
    {CookieSid, CookieSidOther, CookieTok, CookieExpiry, CookieNoPath, CookieNoDomain}

CookieLists(n) == SeqsUpTo(Cookies, n)

\* time.time(): seconds and milliseconds
TimeOld == [sec |-> 1700000000, ms |-> 250]
TimeNew == [sec |-> 1700003600, ms |-> 0]

Storages == { EmptyDict, [token |-> "x"] }

required_fields == <<"domain", "current_url", "timestamp", "cookies">>

RequiredKeys == { required_fields[i] : i \in 1..Len(required_fields) }

StorageKeys == {"local_storage", "session_storage"}

\* the dict of lines 181-188
SessionDict(cookies, local_storage, session_storage, timestamp) ==
    [cookies |-> cookies, domain |-> "example.com",
     current_url |-> "https://example.com/dashboard",
     local_storage |-> local_storage, session_storage |-> session_storage,
     timestamp |-> timestamp]

\* d without the keys outside S
Restrict(d, S) == [k \in (DOMAIN d) \cap S |-> d[k]]

\* dict.get(k, default)
DictGet(d, k, default) == IF k \in DOMAIN d THEN d[k] ELSE default

AllKeys == RequiredKeys \cup StorageKeys

\* Which keys a dict of the bounded input sets has: all six, the four
\* required ones, one storage key only, one required key missing, none.
KeySets ==
    {AllKeys, RequiredKeys, RequiredKeys \cup {"local_storage"}, {}}
        \cup { AllKeys \ {k} : k \in RequiredKeys }

SnapshotsOver(lists, storages, t) ==
    { Restrict(SessionDict(cs, ls, ls, t), K) :
        cs \in lists, ls \in storages, K \in KeySets }

----------------------------------------------------------------------------
(* The session file: json.dump and json.load.  A JSON object is written as *)
(* its members in order; json.load rebuilds the dict from the members.     *)

\* time.strftime('%Y-%m-%d %H:%M:%S', time.localtime(t)): whole seconds
Strftime(t) == [ymdhms |-> t.sec]

\* order in which readable_data's keys are written (lines 213-232)
TopOrder ==
    <<"domain", "current_url", "timestamp", "timestamp_readable", "cookies",
      "local_storage", "session_storage">>

\* order of a cookie record's keys (lines 219-227)
CookieOrder ==
    <<"name", "value", "domain", "path", "secure", "httpOnly", "sameSite">>

StorageOrder == <<"token">>

\* the members of dict d, in the order given
JsonObject(order, d) ==
    LET present(k) == k \in DOMAIN d IN
    [members |-> SelectSeq(order, present), at |-> d]

\* the dict a JSON object is parsed to
JsonDict(o) == [k \in { o.members[i] : i \in 1..Len(o.members) } |-> o.at[k]]

\* json.dump(readable_data, f, indent=2, ensure_ascii=False)
JsonDump(d) ==
    JsonObject(TopOrder,
        [k \in DOMAIN d |->
            IF k = "cookies"
            THEN [i \in 1..Len(d[k]) |-> JsonObject(CookieOrder, d[k][i])]
            ELSE IF k \in StorageKeys THEN JsonObject(StorageOrder, d[k])
            ELSE d[k]])

\* json.load(f) of a parseable file
JsonLoad(o) ==
    LET top == JsonDict(o) IN
    [k \in DOMAIN top |->
        IF k = "cookies"
        THEN [i \in 1..Len(top[k]) |-> JsonDict(top[k][i])]
        ELSE IF k \in StorageKeys THEN JsonDict(top[k])
        ELSE top[k]]

\* a file that json.load cannot parse (also: a file truncated by a failed write)
CorruptFile == [exists |-> TRUE, parseable |-> FALSE]

FileOf(o) == [exists |-> TRUE, parseable |-> TRUE, text |-> o]

\* keys a cookie must have for lines 220-224 not to raise KeyError
CookieSubscripted == {"name", "value", "domain", "path", "secure"}

\* the record of lines 219-227
ReadableCookie(cookie) ==
    [name |-> cookie.name, value |-> cookie.value, domain |-> cookie.domain,
     path |-> cookie.path, secure |-> cookie.secure,
     httpOnly |-> DictGet(cookie, "httpOnly", FALSE),
     sameSite |-> DictGet(cookie, "sameSite", "None")]

\* readable_data (lines 213-232)
ReadableData(sd) ==
    [domain |-> sd.domain, current_url |-> sd.current_url,
     timestamp |-> sd.timestamp, timestamp_readable |-> Strftime(sd.timestamp),
     cookies |-> [i \in 1..Len(sd.cookies) |-> ReadableCookie(sd.cookies[i])],
     local_storage |-> DictGet(sd, "local_storage", EmptyDict),
     session_storage |-> DictGet(sd, "session_storage", EmptyDict)]

\* What the disk does to the write of lines 235-238: "ok"; "open fails"
\* (makedirs or open raises, the file is untouched); "write fails" (open
\* has truncated the file and json.dump raises before completing).
IoOutcomes == {"ok", "open fails", "write fails"}

\* cookies of the snapshot in a file, if it holds any
FileCookies(file) ==
    IF file.exists /\ file.parseable /\ "cookies" \in DOMAIN file.text.at
    THEN file.text.at.cookies
    ELSE <<>>

\* a save_session_data that keeps the previous file's cookies and appends
\* the new ones
SaveSessionData_Merge(sd, file, io) ==
    IF ~Truthy(sd)
    THEN [ret |-> FALSE, file |-> file, why |-> "no session data"]
    ELSE IF ~(RequiredKeys \subseteq DOMAIN sd)
    THEN [ret |-> FALSE, file |-> file, why |-> "missing required field"]
    ELSE IF \E i \in 1..Len(sd.cookies) :
                ~(CookieSubscripted \subseteq DOMAIN sd.cookies[i])
    THEN [ret |-> FALSE, file |-> file, why |-> "KeyError"]
    ELSE IF io = "open fails"
    THEN [ret |-> FALSE, file |-> file, why |-> "OSError"]
    ELSE IF io = "write fails"
    THEN [ret |-> FALSE, file |-> CorruptFile, why |-> "OSError"]
    ELSE LET new == JsonDump(ReadableData(sd)) IN
         [ret |-> TRUE,
          file |-> FileOf([new EXCEPT !.at.cookies = FileCookies(file) \o @]),
          why |-> "saved"]

\* save_session_data: the returned value and the file afterwards
SaveSessionData(sd, file, io) ==
    IF ~Truthy(sd)
    THEN [ret |-> FALSE, file |-> file, why |-> "no session data"]
    ELSE IF ~(RequiredKeys \subseteq DOMAIN sd)
    THEN [ret |-> FALSE, file |-> file, why |-> "missing required field"]
    ELSE IF \E i \in 1..Len(sd.cookies) :
                ~(CookieSubscripted \subseteq DOMAIN sd.cookies[i])
    THEN [ret |-> FALSE, file |-> file, why |-> "KeyError"]
    ELSE IF io = "open fails"
    THEN [ret |-> FALSE, file |-> file, why |-> "OSError"]
    ELSE IF io = "write fails"
    THEN [ret |-> FALSE, file |-> CorruptFile, why |-> "OSError"]
    ELSE [ret |-> TRUE, file |-> FileOf(JsonDump(ReadableData(sd))), why |-> "saved"]

\* load_session_data: the returned value
LoadSessionData(file) ==
    IF ~file.exists THEN None
    ELSE IF ~file.parseable THEN None
    ELSE JsonLoad(file.text)


----------------------------------------------------------------------------
(* configure_requests_session: projection of a snapshot onto the requests  *)
(* session.  The jar maps a cookie's (name, domain, path) to its value.    *)

\* the key RequestsCookieJar.set files a cookie under
CookieKey(cookie) == [name |-> cookie.name, domain |-> cookie.domain, path |-> cookie.path]

\* keys a cookie must have for lines 293-298 not to raise KeyError
CookieProjected == {"name", "value", "domain", "path"}

\* a jar that keeps an existing cookie instead of replacing it
JarSet_KeepExisting(j, cookie) ==
    IF CookieKey(cookie) \in DOMAIN j THEN j
    ELSE [k \in (DOMAIN j) \cup {CookieKey(cookie)} |->
            IF k = CookieKey(cookie) THEN cookie.value ELSE j[k]]

\* a jar that keeps both cookies when the key is already there
JarSet_KeepBoth(j, cookie) ==
    [k \in (DOMAIN j) \cup {CookieKey(cookie)} |->
        IF k = CookieKey(cookie)
        THEN (IF k \in DOMAIN j THEN j[k] \o "; " \o cookie.value ELSE cookie.value)
        ELSE j[k]]

\* a jar that forgets its other cookies when one is set
JarSet_ForgetOthers(j, cookie) ==
    [k \in {CookieKey(cookie)} |-> cookie.value]

\* self.session.cookies.set(name, value, domain=..., path=...)
JarSet(j, cookie) ==
    [k \in (DOMAIN j) \cup {CookieKey(cookie)} |->
        IF k = CookieKey(cookie) THEN cookie.value ELSE j[k]]

\* the loop of lines 292-298 from the i-th cookie on: the jar afterwards
\* and whether a KeyError ended it
RECURSIVE SetCookies(_, _, _)
SetCookies(j, cookies, i) ==
    IF i > Len(cookies) THEN [jar |-> j, raised |-> FALSE]
    ELSE IF ~(CookieProjected \subseteq DOMAIN cookies[i])
    THEN [jar |-> j, raised |-> TRUE]
    ELSE SetCookies(JarSet(j, cookies[i]), cookies, i + 1)

\* the headers of lines 301-306
BrowserHeaders ==
    [UserAgent |-> "Mozilla/5.0 Chrome/120.0.0.0",
     Accept |-> "text/html,application/xhtml+xml",
     AcceptLanguage |-> "en-US,en;q=0.5",
     Connection |-> "keep-alive"]

\* dict.update
DictUpdate(d, u) ==
    [k \in (DOMAIN d) \cup (DOMAIN u) |-> IF k \in DOMAIN u THEN u[k] ELSE d[k]]

\* configure_requests_session: "False" and "True" are its return values,
\* "raised" an exception leaving it; jar and headers are the session's
\* afterwards.
ConfigureRequestsSession(j, h, sd) ==
    IF ~Truthy(sd)
    THEN [outcome |-> "False", jar |-> j, headers |-> h]
    ELSE IF "cookies" \notin DOMAIN sd
    THEN [outcome |-> "raised", jar |-> j, headers |-> h]
    ELSE LET r == SetCookies(j, sd.cookies, 1) IN
         IF r.raised
         THEN [outcome |-> "raised", jar |-> r.jar, headers |-> h]
         ELSE [outcome |-> "True", jar |-> r.jar, headers |-> DictUpdate(h, BrowserHeaders)]


----------------------------------------------------------------------------
(* State after construction of BrowserAuthenticator(target_url)            *)

\* requests.Session() starts with an empty cookie jar
EmptyJar == [k \in {} |-> ""]

\* requests.Session() starts with the library's default headers
DefaultHeaders ==
    [Accept |-> "*/*", AcceptEncoding |-> "gzip, deflate",
     Connection |-> "keep-alive", UserAgent |-> "python-requests"]

NoFile == [exists |-> FALSE]

NoCalls ==
    [login |-> 0, capture |-> 0, save |-> 0, configure |-> 0, probe |-> 0,
     download |-> 0, load |-> 0]

NotSaved == [ret |-> FALSE, why |-> "not called"]

Constructed ==
    /\ jar = EmptyJar
    /\ headers = DefaultHeaders
    /\ driver = "none"
    /\ get_result = NoRequest
    /\ response = None
    /\ printed = ""
    /\ saved = NotSaved
    /\ loaded = None
    /\ configured = "not called"
    /\ calls = NoCalls
    /\ elapsed = 0

----------------------------------------------------------------------------
(* The probe alone: one call of test_authenticated_access on every GET     *)
(* result of the bounded set.                                              *)

InitProbe ==
    /\ pc = "probe_unit"
    /\ cookies_file = NoFile
    /\ session_data = None
    /\ Constructed

UnitProbe ==
    /\ pc = "probe_unit"
    /\ \E get \in GetResults :
        LET r == TestAuthenticatedAccess(get) IN
        /\ get_result' = get
        /\ response' = r.ret
        /\ printed' = r.printed
        /\ pc' = IF r.raised THEN "raised" ELSE "probed"
    /\ calls' = [calls EXCEPT !.probe = @ + 1]
    /\ UNCHANGED <<elapsed, cookies_file, session_data, jar, headers, driver, saved, loaded,
                   configured>>

NextProbe == UnitProbe

SpecProbe == InitProbe /\ [][NextProbe]_vars

----------------------------------------------------------------------------
(* Claims about the probe, checked under SpecProbe *)

\* a GET completed and test_authenticated_access returned
Probed == pc = "probed" /\ get_result # TransportError /\ get_result # NoRequest

\* The seven failure phrases as the specification lists them.
SevenPhrases ==
    { <<"l","o","g","i","n">>,
      <<"s","i","g","n"," ","i","n">>,
      <<"u","n","a","u","t","h","o","r","i","z","e","d">>,
      <<"a","c","c","e","s","s"," ","d","e","n","i","e","d">>,
      <<"p","l","e","a","s","e"," ","l","o","g"," ","i","n">>,
      <<"a","u","t","h","e","n","t","i","c","a","t","i","o","n"," ",
        "r","e","q","u","i","r","e","d">>,
      <<"s","e","s","s","i","o","n"," ","e","x","p","i","r","e","d">> }

\* the case-folded body contains one of the seven phrases
HasPhrase(body) == \E p \in SevenPhrases : Contains(Lower(body), p)

\* C3: for every response with status 401 or 403, whatever its body, the
\* probe's outcome is Unauthenticated (it returns None from the 401/403
\* branch): the status check wins over the content check.
C3_StatusWinsOverContent ==
    (Probed /\ get_result.status \in {401, 403})
        => (response = None /\ printed = "failed 401/403")

\* C3 witness: a 401 response whose body contains a failure phrase was probed
C3_Witness ==
    /\ Probed
    /\ get_result.status = 401
    /\ HasPhrase(get_result.body)
    /\ printed = "failed 401/403"

\* C4: the outcome is Authenticated(response) exactly when the GET completed
\* with status 200 and the case-folded body contains none of the seven
\* phrases; then the response itself is returned.
C4_AuthenticatedIff ==
    (pc = "probed") =>
        /\ (printed = "appears successful")
              <=> (Probed /\ get_result.status = 200 /\ ~HasPhrase(get_result.body))
        /\ (printed = "appears successful") => response = get_result

\* C4 witness: a status-200 response with a phrase-free body was probed and
\* classified Authenticated
C4_Witness ==
    /\ Probed
    /\ get_result.status = 200
    /\ ~HasPhrase(get_result.body)
    /\ Len(get_result.body) > 0
    /\ printed = "appears successful"

\* C5: for every completed GET whose status is not 401/403 and that is not
\* a phrase-free 200, the outcome is Indeterminate and carries the response:
\* the response is returned (so the value differs from Unauthenticated's
\* None) from one of the two warning branches (so it is not Authenticated).
C5_IndeterminateCarriesResponse ==
    (/\ Probed
     /\ get_result.status \notin {401, 403}
     /\ ~(get_result.status = 200 /\ ~HasPhrase(get_result.body)))
        => /\ response = get_result
           /\ response # None
           /\ printed \in {"login-related content", "unexpected response"}
           /\ printed = IF HasPhrase(get_result.body)
                        THEN "login-related content"
                        ELSE "unexpected response"

\* C5 witness: a status-200 response whose body contains a failure phrase
\* was probed and returned
C5_Witness ==
    /\ Probed
    /\ get_result.status = 200
    /\ HasPhrase(get_result.body)
    /\ response = get_result

\* C6: a transport or timeout failure of the GET does not leave the probe as
\* an exception; the probe returns None (no response) from its error branch.
C6_TransportFailureIsNoCrash ==
    (get_result = TransportError)
        => (pc = "probed" /\ response = None /\ printed = "error testing")

\* C6 witness: the GET failed in transport and the probe returned
C6_Witness == get_result = TransportError /\ pc = "probed"

\* the values test_authenticated_access returns for 401/403 responses
UnauthenticatedValues ==
    { TestAuthenticatedAccess(g).ret :
        g \in { r \in GetResults \ {TransportError} : r.status \in {401, 403} } }

\* C19: the value the probe returns for a transport or timeout failure can
\* be told apart from the value it returns for a 401/403 response: it is
\* none of the values returned for 401/403 responses.
C19_TransportFailureDistinguishable ==
    (pc = "probed" /\ get_result = TransportError)
        => response \notin UnauthenticatedValues

\* What the code does satisfy: the two failures differ in the message
\* printed, and both return None.
TransportFailureDiffersInMessageOnly ==
    (pc = "probed" /\ (get_result = TransportError \/ (Probed /\ get_result.status \in {401, 403})))
        => /\ response = None
           /\ (printed = "error testing") <=> (get_result = TransportError)
           /\ (printed = "failed 401/403") <=> (get_result # TransportError)

----------------------------------------------------------------------------
(* The codec alone: save_session_data and load_session_data on every       *)
(* snapshot and every file of the bounded sets; a loaded snapshot can be   *)
(* saved and loaded again.                                                 *)

\* a file left by an earlier run
OldFile ==
    FileOf(JsonDump(ReadableData(
        SessionDict(<<CookieExpiry>>, [token |-> "x"], EmptyDict, TimeOld))))

CodecFiles ==
    {NoFile, CorruptFile}
        \cup { FileOf(JsonDump(d)) : d \in SnapshotsOver(CookieLists(MaxCookies), Storages, TimeOld) }

InitCodec ==
    /\ pc = "codec_unit"
    /\ \/ /\ session_data = None
          /\ cookies_file \in CodecFiles
       \/ /\ session_data \in SnapshotsOver(CookieLists(MaxCookies), Storages, TimeNew)
          /\ cookies_file \in {NoFile, CorruptFile, OldFile}
    /\ Constructed

UnitSave ==
    /\ pc = "codec_unit"
    /\ calls.save < MaxRounds
    /\ \E io \in IoOutcomes :
        LET r == SaveSessionData(session_data, cookies_file, io) IN
        /\ cookies_file' = r.file
        /\ saved' = [ret |-> r.ret, why |-> r.why]
    /\ pc' = "codec_saved"
    /\ calls' = [calls EXCEPT !.save = @ + 1]
    /\ UNCHANGED <<elapsed, session_data, jar, headers, driver, get_result, response,
                   printed, loaded, configured>>

UnitLoad ==
    /\ pc \in {"codec_unit", "codec_saved"}
    /\ loaded' = LoadSessionData(cookies_file)
    /\ pc' = "codec_loaded"
    /\ calls' = [calls EXCEPT !.load = @ + 1]
    /\ UNCHANGED <<elapsed, cookies_file, session_data, jar, headers, driver, get_result,
                   response, printed, saved, configured>>

\* the loaded snapshot becomes the snapshot to save next
UnitAdopt ==
    /\ pc = "codec_loaded"
    /\ loaded # None
    /\ saved # NotSaved
    /\ calls.save < MaxRounds
    /\ session_data' = loaded
    /\ saved' = NotSaved
    /\ pc' = "codec_unit"
    /\ UNCHANGED <<elapsed, cookies_file, jar, headers, driver, get_result, response,
                   printed, loaded, configured, calls>>

NextCodec == UnitSave \/ UnitLoad \/ UnitAdopt

SpecCodec == InitCodec /\ [][NextCodec]_vars

----------------------------------------------------------------------------
(* Claims about the codec, checked under SpecCodec *)

\* the file parses as a JSON object
Parseable(file) == file.exists /\ file.parseable

\* keys of the JSON object in the file
FileKeys(file) == { file.text.members[i] : i \in 1..Len(file.text.members) }

\* C7: load_session_data of a parseable file that lacks one of domain,
\* current_url, timestamp, cookies fails: it returns no snapshot (None, or
\* at most an empty dict).
C7_MissingKeyIsRejected ==
    (/\ pc = "codec_loaded"
     /\ Parseable(cookies_file)
     /\ ~(RequiredKeys \subseteq FileKeys(cookies_file)))
        => (loaded = None \/ DOMAIN loaded = {})

\* A valid snapshot, as the specification's data model has it: the four
\* required keys, and cookies with a non-empty name and domain (path,
\* httpOnly and sameSite have defaults).
ValidSnapshot(s) ==
    /\ s # None
    /\ RequiredKeys \subseteq DOMAIN s
    /\ \A i \in 1..Len(s.cookies) :
          /\ {"name", "value", "domain", "secure"} \subseteq DOMAIN s.cookies[i]
          /\ s.cookies[i].name # ""
          /\ s.cookies[i].domain # ""

\* the seven fields of a cookie, absent ones at their defaults
SevenFields(c) ==
    [name |-> c.name, value |-> c.value, domain |-> c.domain,
     path |-> DictGet(c, "path", "/"), secure |-> c.secure,
     httpOnly |-> DictGet(c, "httpOnly", FALSE),
     sameSite |-> DictGet(c, "sameSite", "None")]

\* l equals s in domain, current_url, timestamp, the cookie sequence and the
\* two storage maps (an absent map counting as empty)
SameSnapshot(l, s) ==
    /\ l # None
    /\ AllKeys \subseteq DOMAIN l
    /\ l.domain = s.domain
    /\ l.current_url = s.current_url
    /\ l.timestamp = s.timestamp
    /\ Len(l.cookies) = Len(s.cookies)
    /\ \A i \in 1..Len(s.cookies) : l.cookies[i] = SevenFields(s.cookies[i])
    /\ l.local_storage = DictGet(s, "local_storage", EmptyDict)
    /\ l.session_storage = DictGet(s, "session_storage", EmptyDict)

\* save_session_data(session_data) was called and the disk did not fail,
\* then load_session_data was called
LoadedAfterSave == pc = "codec_loaded" /\ saved.why \notin {"not called", "OSError"}

\* C8: round trip: for every valid snapshot s, load after save(s) yields a
\* snapshot equal to s in domain, current_url, timestamp, the cookie
\* sequence and both storage maps (absent maps coming back empty), and a
\* second round trip yields the same snapshot again.
C8_RoundTrip ==
    (LoadedAfterSave /\ ValidSnapshot(session_data))
        => SameSnapshot(loaded, session_data)

\* The round trip for the snapshots save_session_data accepts: whenever
\* save returned True, load returns a snapshot equal to the saved one.
RoundTripWhenSaved ==
    (pc = "codec_loaded" /\ saved.ret) => SameSnapshot(loaded, session_data)

\* save_session_data was called and the disk did not fail
SavedWithoutIoError == pc = "codec_saved" /\ saved.why \notin {"not called", "OSError"}

\* C16: save_session_data succeeds for every valid snapshot when no I/O
\* error occurs: a snapshot with the four required keys whose cookies have
\* a non-empty name and domain, also one whose cookies lack path, httpOnly
\* or sameSite, is saved (save_session_data returns True and the file
\* holds it).
C16_ValidSnapshotIsSaved ==
    (SavedWithoutIoError /\ ValidSnapshot(session_data))
        => /\ saved.ret
           /\ Parseable(cookies_file)
           /\ SameSnapshot(LoadSessionData(cookies_file), session_data)

\* What the code does satisfy: a valid snapshot all of whose cookies have a
\* path is saved when no I/O error occurs, httpOnly and sameSite taking
\* their defaults.
ValidSnapshotWithPathsIsSaved ==
    (/\ SavedWithoutIoError
     /\ ValidSnapshot(session_data)
     /\ \A i \in 1..Len(session_data.cookies) : "path" \in DOMAIN session_data.cookies[i])
        => /\ saved.ret
           /\ SameSnapshot(LoadSessionData(cookies_file), session_data)

\* C18: load_session_data of a file that has the four required keys but
\* lacks local_storage and/or session_storage succeeds, and the snapshot
\* it returns has an empty mapping for each storage key the file lacks.
C18_AbsentStorageLoadsAsEmpty ==
    (/\ pc = "codec_loaded"
     /\ Parseable(cookies_file)
     /\ RequiredKeys \subseteq FileKeys(cookies_file))
        => /\ loaded # None
           /\ \A k \in StorageKeys \ FileKeys(cookies_file) :
                 k \in DOMAIN loaded /\ loaded[k] = EmptyDict

\* What the code does satisfy: such a file loads (the result is not None)
\* and the returned dict has exactly the file's keys.
AbsentStorageStaysAbsent ==
    (/\ pc = "codec_loaded"
     /\ Parseable(cookies_file)
     /\ RequiredKeys \subseteq FileKeys(cookies_file))
        => /\ loaded # None
           /\ DOMAIN loaded = FileKeys(cookies_file)

----------------------------------------------------------------------------
(* The projector alone: configure_requests_session, up to MaxProjections   *)
(* times, of every snapshot onto every jar of the bounded sets.            *)

\* cookies of an earlier snapshot
StaleSid == [name |-> "sid", domain |-> "example.com", path |-> "/"]
StaleOld == [name |-> "old", domain |-> "example.com", path |-> "/"]

InitialJars ==
    { [k \in K |-> "stale"] : K \in SUBSET {StaleSid, StaleOld} }

InitialHeaders == {DefaultHeaders, DictUpdate(DefaultHeaders, BrowserHeaders)}

InitProject ==
    /\ pc = "project_unit"
    /\ cookies_file = NoFile
    /\ session_data \in {None} \cup SnapshotsOver(CookieLists(MaxCookies), Storages, TimeNew)
    /\ jar \in InitialJars
    /\ headers \in InitialHeaders
    /\ driver = "none"
    /\ get_result = NoRequest
    /\ response = None
    /\ printed = ""
    /\ saved = NotSaved
    /\ loaded = None
    /\ configured = "not called"
    /\ calls = NoCalls
    /\ elapsed = 0

UnitProject ==
    /\ pc = "project_unit"
    /\ calls.configure < MaxProjections
    /\ LET r == ConfigureRequestsSession(jar, headers, session_data) IN
        /\ jar' = r.jar
        /\ headers' = r.headers
        /\ configured' = r.outcome
    /\ calls' = [calls EXCEPT !.configure = @ + 1]
    /\ UNCHANGED <<elapsed, pc, cookies_file, session_data, driver, get_result, response,
                   printed, saved, loaded>>

NextProject == UnitProject

SpecProject == InitProject /\ [][NextProject]_vars

----------------------------------------------------------------------------
(* Claims about the projector, checked under SpecProject *)

\* the jar holds a cookie with c's (name, value, domain, path)
InJar(c) == CookieKey(c) \in DOMAIN jar /\ jar[CookieKey(c)] = c.value

\* the snapshot was projected and configure_requests_session returned True
Projected == configured = "True"

LastWithKey(cookies, i) ==
    \A j \in (i + 1)..Len(cookies) : CookieKey(cookies[j]) # CookieKey(cookies[i])

C10_ProjectIdempotent ==
    [][(calls.configure >= 1 /\ calls'.configure = calls.configure + 1)
          => (jar' = jar /\ headers' = headers /\ configured' = configured)]_vars

\* C10 witness: a snapshot with cookies was projected twice onto a jar that
\* held other cookies
C10_Witness ==
    /\ calls.configure = 2
    /\ Projected
    /\ Len(session_data.cookies) = 2
    /\ StaleOld \in DOMAIN jar

\* the (name, domain, path) keys the loop of lines 292-298 sets for the
\* snapshot sd
SnapshotKeys(sd) ==
    IF Truthy(sd) /\ "cookies" \in DOMAIN sd
    THEN { CookieKey(sd.cookies[i]) :
             i \in { n \in 1..Len(sd.cookies) : CookieProjected \subseteq DOMAIN sd.cookies[n] } }
    ELSE {}

\* the value of the last cookie of the list that has the key k
LastValue(cookies, k) ==
    LET at == { i \in 1..Len(cookies) : CookieKey(cookies[i]) = k } IN
    cookies[CHOOSE i \in at : \A n \in at : n <= i].value

----------------------------------------------------------------------------
(* main(): one run of the orchestrator, from the URL prompt to its return. *)
(* pc names the place the run waits at: a prompt, the disk, the browser or *)
(* the network.                                                            *)

\* cookies the browser of a run may report, and a session file may hold
RunCookies == {CookieSid, CookieTok, CookieNoPath, CookieNoDomain}

RunCookieLists == SeqsUpTo(RunCookies, MaxRunCookies)

\* the contents the session file may have when the run starts
RunFiles ==
    {NoFile, CorruptFile}
        \cup { FileOf(JsonDump(d)) : d \in SnapshotsOver(RunCookieLists, {[token |-> "x"]}, TimeOld) }

\* the answers the network may give to a probe: a transport failure, and
\* responses with the bodies "Welcome back" and "Please log in"
BodyWelcome == <<"W","e","l","c","o","m","e"," ","b","a","c","k">>
BodyPleaseLogIn == <<"P","l","e","a","s","e"," ","l","o","g"," ","i","n">>

RunGetResults ==
    { TransportError,
      [status |-> 200, body |-> BodyWelcome],
      [status |-> 200, body |-> BodyPleaseLogIn],
      [status |-> 204, body |-> <<>>],
      [status |-> 401, body |-> BodyPleaseLogIn],
      [status |-> 403, body |-> BodyWelcome],
      [status |-> 503, body |-> BodyWelcome] }

\* places at which main() has returned
Terminal ==
    {"no_url", "interrupted", "done_valid", "done_fresh", "failed_probe",
     "failed_capture", "failed_login", "unexpected_error"}

\* BrowserAuthenticator.__exit__ -> close_browser, on every way out of the
\* with block
DriverAt(p, d) == IF p \in Terminal THEN "none" ELSE d

Init ==
    /\ pc = "ask_url"
    /\ cookies_file \in RunFiles
    /\ session_data = None
    /\ Constructed

\* lines 443-461: the URL prompt and the construction of the authenticator
AskUrl ==
    /\ pc = "ask_url"
    /\ \E answer \in {"url", "empty", "interrupt"} :
        pc' = CASE answer = "url" -> "load"
                [] answer = "empty" -> "no_url"
                [] OTHER -> "interrupted"
    /\ UNCHANGED <<elapsed, cookies_file, session_data, jar, headers, driver, get_result,
                   response, printed, saved, loaded, configured, calls>>

\* lines 464-467: load the session file; the f-string of line 467
\* subscripts session_data['domain']
LoadSession ==
    /\ pc = "load"
    /\ LET sd == LoadSessionData(cookies_file) IN
        /\ session_data' = sd
        /\ loaded' = sd
        /\ pc' = IF ~Truthy(sd) THEN "login"
                 ELSE IF "domain" \notin DOMAIN sd THEN "unexpected_error"
                 ELSE "ask_use"
    /\ calls' = [calls EXCEPT !.load = @ + 1]
    /\ driver' = DriverAt(pc', driver)
    /\ UNCHANGED <<elapsed, cookies_file, jar, headers, get_result, response, printed,
                   saved, configured>>

\* lines 468-475: "Use existing session?" and, on yes, the projection
AskUseExisting ==
    /\ pc = "ask_use"
    /\ \E answer \in {"y", "n", "interrupt"} :
        IF answer = "y"
        THEN LET r == ConfigureRequestsSession(jar, headers, session_data) IN
             /\ jar' = r.jar
             /\ headers' = r.headers
             /\ configured' = r.outcome
             /\ calls' = [calls EXCEPT !.configure = @ + 1]
             /\ pc' = IF r.outcome = "raised" THEN "unexpected_error" ELSE "probe_loaded"
        ELSE /\ pc' = IF answer = "n" THEN "login" ELSE "interrupted"
             /\ UNCHANGED <<jar, headers, configured, calls>>
    /\ driver' = DriverAt(pc', driver)
    /\ UNCHANGED <<elapsed, cookies_file, session_data, get_result, response, printed,
                   saved, loaded>>

\* lines 476-509: probe with the loaded session and decide on its result
ProbeLoaded ==
    /\ pc = "probe_loaded"
    /\ \E get \in RunGetResults :
        LET r == TestAuthenticatedAccess(get) IN
        /\ get_result' = get
        /\ response' = r.ret
        /\ printed' = r.printed
        /\ pc' = IF r.raised THEN "unexpected_error"
                 ELSE IF Truthy(r.ret) /\ r.ret.status = 200 THEN "valid"
                 ELSE "login"
    /\ calls' = [calls EXCEPT !.probe = @ + 1]
    /\ driver' = DriverAt(pc', driver)
    /\ UNCHANGED <<elapsed, cookies_file, session_data, jar, headers, saved, loaded,
                   configured>>

\* lines 481-507 and 525-549: the URL prompt, download_protected_page and
\* the view prompt; then main() returns
Download(done) ==
    \E url \in {"given", "interrupt"}, view \in {"shown", "no content", "interrupt"} :
        /\ pc' = IF url = "interrupt" \/ view = "interrupt" THEN "interrupted" ELSE done
        /\ calls' = IF url = "interrupt" THEN calls
                    ELSE [calls EXCEPT !.download = @ + 1]

\* a main() that writes the reused session back to the file
DownloadLoaded_Resave ==
    /\ pc = "valid"
    /\ Download("done_valid")
    /\ cookies_file' = SaveSessionData(session_data, cookies_file, "ok").file
    /\ driver' = DriverAt(pc', driver)
    /\ UNCHANGED <<elapsed, session_data, jar, headers, get_result, response, printed,
                   saved, loaded, configured>>

DownloadLoaded ==
    /\ pc = "valid"
    /\ Download("done_valid")
    /\ driver' = DriverAt(pc', driver)
    /\ UNCHANGED <<elapsed, cookies_file, session_data, jar, headers, get_result, response,
                   printed, saved, loaded, configured>>

\* max_wait_time=300 (line 76); main() calls manual_login() with the default
max_wait_time == 300

\* seconds a call of input() may block before the user answers
PromptTimes == {0, 200, 400}

\* a main() that calls manual_login again after it has failed
LoginOpen_Retry ==
    /\ pc \in {"login", "failed_login"}
    /\ calls.login < 2
    /\ \E browser \in {"ok", "setup fails", "get fails"} :
        /\ driver' = IF browser = "ok" THEN "open" ELSE "none"
        /\ pc' = IF browser = "ok" THEN "login_wait" ELSE "failed_login"
    /\ calls' = [calls EXCEPT !.login = @ + 1]
    /\ elapsed' = 0
    /\ UNCHANGED <<cookies_file, session_data, jar, headers, get_result, response,
                   printed, saved, loaded, configured>>

\* lines 85-103 of manual_login: set up the browser if there is none and
\* open the login page; any exception makes manual_login return False;
\* start_time is taken when the instructions have been printed
LoginOpen ==
    /\ pc = "login"
    /\ \E browser \in {"ok", "setup fails", "get fails"} :
        /\ driver' = IF browser = "ok" THEN "open" ELSE "none"
        /\ pc' = IF browser = "ok" THEN "login_wait" ELSE "failed_login"
    /\ calls' = [calls EXCEPT !.login = @ + 1]
    /\ elapsed' = 0
    /\ UNCHANGED <<cookies_file, session_data, jar, headers, get_result, response,
                   printed, saved, loaded, configured>>

\* lines 104-119: the first prompt of the wait loop blocks until the user
\* answers; 'quit' and an interrupt end the wait, and only then is the time
\* since start_time compared with max_wait_time
LoginWait ==
    /\ pc = "login_wait"
    /\ \E user_input \in {"", "quit", "interrupt"}, blocked \in PromptTimes :
        /\ elapsed' = elapsed + blocked
        /\ pc' = IF user_input = "" /\ ~(elapsed' > max_wait_time)
                 THEN "login_confirm" ELSE "failed_login"
    /\ driver' = DriverAt(pc', driver)
    /\ UNCHANGED <<cookies_file, session_data, jar, headers, get_result, response,
                   printed, saved, loaded, configured, calls>>

\* lines 132-142: the confirmation prompt blocks until the user answers;
\* 'y' leaves the loop and manual_login returns True, with no look at the
\* time
LoginConfirm ==
    /\ pc = "login_confirm"
    /\ \E confirm \in {"y", "n", "interrupt"}, blocked \in PromptTimes :
        /\ elapsed' = elapsed + blocked
        /\ pc' = CASE confirm = "y" -> "capture"
                   [] confirm = "n" -> "login_wait"
                   [] OTHER -> "failed_login"
    /\ driver' = DriverAt(pc', driver)
    /\ UNCHANGED <<cookies_file, session_data, jar, headers, get_result, response,
                   printed, saved, loaded, configured, calls>>

\* lines 515-517 and capture_session_data: read cookies, URL and storage
\* from the browser (an inaccessible storage is captured as {}); a browser
\* that fails on get_cookies or current_url raises into main().
\* manual_login has returned: its start_time is gone.
CaptureSession ==
    /\ pc = "capture"
    /\ calls' = [calls EXCEPT !.capture = @ + 1]
    /\ elapsed' = 0
    /\ IF driver = "none"
       THEN /\ session_data' = None
            /\ pc' = "failed_capture"
       ELSE \E browser \in {"ok", "fails"} :
            IF browser = "fails"
            THEN /\ pc' = "unexpected_error"
                 /\ UNCHANGED session_data
            ELSE \E cs \in RunCookieLists, ls \in Storages :
                 /\ session_data' = SessionDict(cs, ls, EmptyDict, TimeNew)
                 /\ pc' = IF Truthy(session_data') THEN "save" ELSE "failed_capture"
    /\ driver' = DriverAt(pc', driver)
    /\ UNCHANGED <<cookies_file, jar, headers, get_result, response, printed,
                   saved, loaded, configured>>

\* a main() that gives up the run when save_session_data returns False
SaveSession_GiveUpOnFailure ==
    /\ pc = "save"
    /\ \E io \in IoOutcomes :
        LET r == SaveSessionData(session_data, cookies_file, io) IN
        /\ cookies_file' = r.file
        /\ saved' = [ret |-> r.ret, why |-> r.why]
        /\ pc' = IF r.ret THEN "configure" ELSE "unexpected_error"
    /\ calls' = [calls EXCEPT !.save = @ + 1]
    /\ driver' = DriverAt(pc', driver)
    /\ UNCHANGED <<elapsed, session_data, jar, headers, get_result, response, printed,
                   loaded, configured>>

\* line 518: save_session_data; main() ignores what it returns
SaveSession ==
    /\ pc = "save"
    /\ \E io \in IoOutcomes :
        LET r == SaveSessionData(session_data, cookies_file, io) IN
        /\ cookies_file' = r.file
        /\ saved' = [ret |-> r.ret, why |-> r.why]
    /\ pc' = "configure"
    /\ calls' = [calls EXCEPT !.save = @ + 1]
    /\ UNCHANGED <<elapsed, session_data, jar, headers, driver, get_result, response,
                   printed, loaded, configured>>

\* line 519: project the captured snapshot
ConfigureFresh ==
    /\ pc = "configure"
    /\ LET r == ConfigureRequestsSession(jar, headers, session_data) IN
        /\ jar' = r.jar
        /\ headers' = r.headers
        /\ configured' = r.outcome
        /\ pc' = IF r.outcome = "raised" THEN "unexpected_error" ELSE "probe_fresh"
    /\ calls' = [calls EXCEPT !.configure = @ + 1]
    /\ driver' = DriverAt(pc', driver)
    /\ UNCHANGED <<elapsed, cookies_file, session_data, get_result, response, printed,
                   saved, loaded>>

\* a main() that goes back to manual_login when the probe with the captured
\* session fails
ProbeFresh_LoginAgain ==
    /\ pc = "probe_fresh"
    /\ \E get \in RunGetResults :
        LET r == TestAuthenticatedAccess(get) IN
        /\ get_result' = get
        /\ response' = r.ret
        /\ printed' = r.printed
        /\ pc' = IF r.raised THEN "unexpected_error"
                 ELSE IF Truthy(r.ret) THEN "authenticated"
                 ELSE IF calls.capture < 2 THEN "login"
                 ELSE "failed_probe"
    /\ calls' = [calls EXCEPT !.probe = @ + 1]
    /\ driver' = DriverAt(pc', driver)
    /\ UNCHANGED <<elapsed, cookies_file, session_data, jar, headers, saved, loaded,
                   configured>>

\* lines 520-523 and 550-551: probe with the captured session
ProbeFresh ==
    /\ pc = "probe_fresh"
    /\ \E get \in RunGetResults :
        LET r == TestAuthenticatedAccess(get) IN
        /\ get_result' = get
        /\ response' = r.ret
        /\ printed' = r.printed
        /\ pc' = IF r.raised THEN "unexpected_error"
                 ELSE IF Truthy(r.ret) THEN "authenticated"
                 ELSE "failed_probe"
    /\ calls' = [calls EXCEPT !.probe = @ + 1]
    /\ driver' = DriverAt(pc', driver)
    /\ UNCHANGED <<elapsed, cookies_file, session_data, jar, headers, saved, loaded,
                   configured>>

DownloadFresh ==
    /\ pc = "authenticated"
    /\ Download("done_fresh")
    /\ driver' = DriverAt(pc', driver)
    /\ UNCHANGED <<elapsed, cookies_file, session_data, jar, headers, get_result, response,
                   printed, saved, loaded, configured>>

Next ==
    \/ AskUrl
    \/ LoadSession
    \/ AskUseExisting
    \/ ProbeLoaded
    \/ DownloadLoaded
    \/ LoginOpen
    \/ LoginWait
    \/ LoginConfirm
    \/ CaptureSession
    \/ SaveSession
    \/ ConfigureFresh
    \/ ProbeFresh
    \/ DownloadFresh

Spec == Init /\ [][Next]_vars

\* a prompt of manual_login that takes time to be answered
PromptTakesTime == (LoginWait \/ LoginConfirm) /\ elapsed' > elapsed

\* Runs in which every prompt, disk access, browser call and network call
\* returns (each step of main() that can be taken is taken), and in which
\* the prompts of manual_login do not all return in no time.
FairSpec == Spec /\ WF_vars(Next) /\ SF_vars(PromptTakesTime)

----------------------------------------------------------------------------
(* Claims about the orchestrator, checked under Spec *)

\* the loaded session has been probed and main() has decided on the result;
\* manual_login has not yet been entered
DecidedOnLoadedProbe == calls.probe = 1 /\ calls.login = 0 /\ pc # "probe_loaded"

\* C1: whenever the probe of the loaded session is classified
\* Unauthenticated or Indeterminate (a status-200 response with a failure
\* phrase included), the run goes on to manual_login to capture a new
\* snapshot; only an Authenticated probe makes the session count as valid.
C1_NotAuthenticatedLeadsToCapture ==
    (DecidedOnLoadedProbe /\ printed # "appears successful") => pc = "login"

\* the session file exists and is unparseable or lacks a required key
Corrupt(file) ==
    /\ file.exists
    /\ (file.parseable => ~(RequiredKeys \subseteq FileKeys(file)))

\* the session file is the one load_session_data read, and manual_login
\* has not been entered
LoadedBeforeLogin == calls.load = 1 /\ calls.login = 0 /\ calls.save = 0

\* C2: when the session file is corrupt (unparseable, or parseable but
\* lacking one of domain, current_url, timestamp, cookies), loading it ends
\* neither in an exception nor in the end of the run: the run does not end,
\* in the handler of unexpected errors or with the file's session reused,
\* before it has gone to manual_login as it does when no file exists.
C2_CorruptFileLeadsToCapture ==
    (LoadedBeforeLogin /\ Corrupt(cookies_file))
        => pc \notin {"unexpected_error", "done_valid"}

\* what C2 says of a missing file, which the code does satisfy
NoFileLeadsToCapture ==
    (LoadedBeforeLogin /\ ~cookies_file.exists) => pc = "login"

\* an unparseable file is treated as a missing one
UnparseableFileLeadsToCapture ==
    (LoadedBeforeLogin /\ cookies_file = CorruptFile) => pc = "login"

\* main() has found the loaded session valid (line 478 held): it is about
\* to download, has returned after the download, or was interrupted at one
\* of the download's prompts
FoundValid ==
    /\ calls.probe = 1
    /\ calls.login = 0
    /\ pc \in {"valid", "done_valid", "interrupted"}

\* C12: in every run in which the loaded session is found valid, the run
\* ends after the download with the loaded snapshot reused as it was
\* loaded: the session file is not written (it still holds what was
\* loaded), no capture is requested, manual_login is not entered and the
\* browser is never launched.
C12_ValidReusesLoadedSnapshot ==
    /\ FoundValid =>
          /\ session_data = loaded
          /\ loaded = LoadSessionData(cookies_file)
          /\ calls.save = 0
          /\ saved = NotSaved
          /\ calls.capture = 0
          /\ driver = "none"
    /\ (pc = "done_valid") => FoundValid

\* C12 witness: a run that found the loaded session valid has returned
\* after its download
C12_Witness ==
    /\ pc = "done_valid"
    /\ printed = "appears successful"
    /\ calls.download = 1
    /\ Len(session_data.cookies) = 1

\* places of main() after line 518, on the way through lines 519-551
AfterSave ==
    {"configure", "probe_fresh", "authenticated", "done_fresh", "failed_probe"}

\* capture_session_data has returned a snapshot to main()
Captured == calls.capture = 1 /\ pc \in {"save"} \cup AfterSave

\* the keys save_session_data writes
WrittenKeys == { TopOrder[i] : i \in 1..Len(TopOrder) }

\* after a successful save the file holds exactly the new snapshot: its
\* keys are the written keys, and loading it gives the new snapshot's
\* domain, URL, timestamp, cookie sequence and storage maps and nothing else
FileHoldsExactlySnapshot ==
    /\ FileKeys(cookies_file) = WrittenKeys
    /\ SameSnapshot(LoadSessionData(cookies_file), session_data)
    /\ cookies_file = FileOf(JsonDump(LoadSessionData(cookies_file)))

\* a step in which capture_session_data returns a snapshot leads to the save
CaptureLeadsToSave ==
    (calls'.capture = calls.capture + 1 /\ pc' \notin {"unexpected_error", "failed_capture"})
        => pc' = "save"

\* the step from the save calls save_session_data and nothing else: the
\* snapshot and the jar are as before, no projection or probe is counted
SaveOnlySaves ==
    (pc = "save")
        => (pc' = "configure" /\ calls' = [calls EXCEPT !.save = @ + 1]
              /\ session_data' = session_data /\ jar' = jar)

\* C13: after a successful capture the next thing main() does is to call
\* save_session_data with the new snapshot; the save neither projects nor
\* probes, so at the projection and at every later place the save has
\* happened, and once the new snapshot has been projected the save has
\* either written it or failed on the disk; and after a successful save the
\* file holds exactly the new snapshot, with nothing carried over from the
\* previous file.
C13_PersistsBeforeProjecting ==
    /\ []((calls.capture = 1 /\ pc \in AfterSave) => (calls.save = 1 /\ saved # NotSaved))
    /\ []((calls.capture = 1 /\ pc \in AfterSave \ {"configure"})
            => (saved.ret \/ saved.why = "OSError"))
    /\ []((Captured /\ saved.ret) => FileHoldsExactlySnapshot)
    /\ [][CaptureLeadsToSave /\ SaveOnlySaves]_vars

\* C13 witness: the previous file held the cookie "tok"; the new snapshot,
\* with the cookie "sid" only, has been saved and is about to be projected
C13_Witness ==
    /\ pc = "configure"
    /\ saved.ret
    /\ Truthy(loaded)
    /\ "cookies" \in DOMAIN loaded
    /\ loaded.cookies = <<CookieTok>>
    /\ session_data.cookies = <<CookieSid>>
    /\ session_data.local_storage = EmptyDict

\* the capture has failed: manual_login returned False (line 552), or
\* capture_session_data returned nothing (line 554) or raised into main()
CaptureFailed ==
    \/ pc \in {"failed_login", "failed_capture"}
    \/ pc = "unexpected_error" /\ calls.capture = 1 /\ calls.save = 0

\* C14: when the capture fails the run has ended: main() takes no further
\* step, manual_login was entered once and capture_session_data at most
\* once, the session file was not written (it is the file main() started
\* with), and the only projection and probe of the run are those of the
\* loaded session, before the capture began.
C14_CaptureFailureEndsRun ==
    /\ [](CaptureFailed
            => /\ calls.login = 1
               /\ calls.capture <= 1
               /\ calls.save = 0
               /\ saved = NotSaved
               /\ loaded = LoadSessionData(cookies_file)
               /\ calls.configure <= calls.load
               /\ calls.probe <= calls.configure
               /\ (calls.configure = 1 => Truthy(loaded))
               /\ driver = "none")
    /\ [][~CaptureFailed]_vars

\* C14 witness: the loaded session was probed and not found valid, and
\* manual_login then returned False after the browser had been opened
C14_Witness ==
    /\ pc = "failed_login"
    /\ calls.probe = 1
    /\ printed = "failed 401/403"
    /\ calls.capture = 0

\* writing the session file failed (the except of lines 249-253 after
\* makedirs, open or json.dump raised)
PersistenceFailed == saved.why = "OSError"

\* the captured snapshot has been projected: every cookie of it that is the
\* last one with its key is in the jar, and the browser headers are set
SnapshotProjected ==
    /\ configured = "True"
    /\ \A i \in 1..Len(session_data.cookies) :
          LastWithKey(session_data.cookies, i) => InJar(session_data.cookies[i])
    /\ \A h \in DOMAIN BrowserHeaders : headers[h] = BrowserHeaders[h]

\* from a failed write main() goes on to project the snapshot it holds
FailedSaveLeadsToProjection ==
    (PersistenceFailed /\ pc = "configure")
        => /\ pc' = "probe_fresh"
           /\ session_data' = session_data
           /\ calls'.configure = calls.configure + 1
           /\ jar' = ConfigureRequestsSession(jar, headers, session_data).jar

\* and from the projection to the probe
ProjectionLeadsToProbe ==
    (PersistenceFailed /\ pc = "probe_fresh")
        => /\ calls'.probe = calls.probe + 1
           /\ get_result' \in RunGetResults
           /\ session_data' = session_data

\* C15: when writing the session file fails after a successful capture,
\* save_session_data reports it (it returns False) and the run goes on with
\* the snapshot in memory: main() still holds the captured snapshot, its
\* next step projects that snapshot, the step after probes, and from the
\* probe on the jar holds the snapshot's cookies.
C15_FailedWriteKeepsSnapshotUsable ==
    /\ [](PersistenceFailed
            => /\ ~saved.ret
               /\ Truthy(session_data)
               /\ AllKeys \subseteq DOMAIN session_data
               /\ session_data.timestamp = TimeNew
               /\ pc \in AfterSave \cup {"interrupted"}
               /\ (pc # "configure") => SnapshotProjected
               /\ (pc \notin {"configure", "probe_fresh"}) => get_result # NoRequest)
    /\ [][FailedSaveLeadsToProjection /\ ProjectionLeadsToProbe]_vars

\* C15 witness: the write failed half-way and left an unparseable file, yet
\* the captured snapshot was projected and the probe with it was answered
C15_Witness ==
    /\ PersistenceFailed
    /\ cookies_file = CorruptFile
    /\ pc = "authenticated"
    /\ session_data.cookies = <<CookieSid>>
    /\ InJar(CookieSid)
    /\ printed = "appears successful"

\* no cookie of the list has an empty domain
NoEmptyDomain(cookies) == \A i \in 1..Len(cookies) : cookies[i].domain # ""

\* C17: a cookie with an empty domain is rejected during capture: the
\* snapshot capture_session_data returns to main() holds no cookie whose
\* domain is empty, and so neither does the file a save of it has written
\* nor the jar it has been projected onto.
C17_NoEmptyDomainCaptured ==
    Captured =>
        /\ NoEmptyDomain(session_data.cookies)
        /\ saved.ret => NoEmptyDomain(LoadSessionData(cookies_file).cookies)
        /\ (pc # "save" /\ pc # "configure") => \A k \in DOMAIN jar : k.domain # ""

\* C20: the manual-login wait is bounded by max_wait_time: manual_login
\* never returns True (main() never goes on to capture_session_data) once
\* more than max_wait_time seconds have passed since the wait began.
C20_NoLoginAfterMaxWait ==
    (pc = "capture") => elapsed <= max_wait_time

\* What the code does satisfy: the time is within max_wait_time whenever
\* the confirmation prompt is put; a wait that has become too long is at
\* the first prompt again, has ended in False (the run has failed, no
\* exception has reached main()), or has ended in True from the
\* confirmation prompt.
TimeCheckedAtFirstPromptOnly ==
    /\ (pc = "login_confirm") => elapsed <= max_wait_time
    /\ (elapsed > max_wait_time) => pc \in {"login_wait", "failed_login", "capture"}

\* the loaded session was projected and not found valid, a new snapshot
\* was captured and projected, and the run is at the probe with it or past
\* it
ReprojectedAfterCapture ==
    /\ calls.capture = 1
    /\ calls.configure = 2
    /\ configured = "True"
    /\ pc \in AfterSave \ {"configure"}

\* C21: in a run where a loaded session was projected and found not valid
\* and a new snapshot was then captured, the jar used by the probe and the
\* download that follow holds only cookies of the new snapshot: every
\* (name, domain, path) in the jar is the key of a cookie of the new
\* snapshot.
C21_JarHoldsOnlyNewCookies ==
    ReprojectedAfterCapture => DOMAIN jar \subseteq SnapshotKeys(session_data)

\* What the code does satisfy: the jar holds the new snapshot's cookies,
\* and beside them every cookie of the loaded snapshot whose key the new
\* snapshot lacks, with the loaded snapshot's value.
JarHoldsNewAndStaleCookies ==
    ReprojectedAfterCapture =>
        /\ SnapshotKeys(session_data) \cup SnapshotKeys(loaded) = DOMAIN jar
        /\ \A k \in SnapshotKeys(session_data) :
              jar[k] = LastValue(session_data.cookies, k)
        /\ \A k \in SnapshotKeys(loaded) \ SnapshotKeys(session_data) :
              jar[k] = LastValue(loaded.cookies, k)

\* main() is in one of its download blocks (lines 479-506 or 523-549) or
\* has called download_protected_page
AtDownload == pc \in {"valid", "authenticated"} \/ calls.download >= 1

\* C22: main() reaches the download only after the last probe of the run
\* was classified Authenticated (a status-200 response without a failure
\* phrase): a run whose last probe was Indeterminate or Unauthenticated
\* never reaches the download, on the reuse path and on the fresh-capture
\* path alike.
C22_DownloadOnlyWhenAuthenticated ==
    AtDownload => (calls.probe >= 1 /\ printed = "appears successful")

\* What the code does satisfy: the download is reached only after a probe
\* that returned a response with status 200 on the reuse path, and with a
\* status below 400 on the fresh-capture path; an Unauthenticated probe
\* (401/403) or a failed GET never leads to it.
DownloadOnlyAfterTruthyResponse ==
    AtDownload =>
        /\ calls.probe >= 1
        /\ response # None
        /\ response = get_result
        /\ IF calls.capture = 0 THEN response.status = 200 ELSE response.status < 400

\* main() has returned
Returned == pc \in Terminal

\* at most one manual_login, capture, save and load, and at most two
\* probes, each after a projection: at most one before the capture (with
\* the loaded snapshot) and one after it
WithinBounds ==
    /\ calls.login <= 1
    /\ calls.capture <= 1
    /\ calls.save <= 1
    /\ calls.load <= 1
    /\ calls.probe <= 2
    /\ calls.probe <= calls.configure
    /\ (calls.capture = 0) => calls.probe <= 1
    /\ (pc = "save") => calls.probe <= 1

\* C23: every run of main() in which each prompt and each call returns
\* comes to its end, after at most one manual_login and one capture, at
\* most one call of save_session_data and at most two probes (one per
\* snapshot); a failed probe of the captured snapshot ends the run, and
\* once main() has returned nothing more happens.
C23_RunTerminatesWithinBounds ==
    /\ <>Returned
    /\ []WithinBounds
    /\ [][~Returned]_vars

\* C23 witness: the run has ended on a failed probe of the captured
\* snapshot, after two probes, one capture and one save
C23_Witness ==
    /\ pc = "failed_probe"
    /\ calls.probe = 2
    /\ calls.capture = 1
    /\ calls.save = 1
    /\ calls.login = 1

====
